---- MODULE Spec2Model ----
(***************************************************************************)
(* Model of spanner2mysql.Spanner2MysqlConverter (converter.go): the       *)
(* conversion of a parsed Spanner DDL document (types.DDStatements) into   *)
(* MySQL DDL text.                                                         *)
(*                                                                         *)
(* Text is modelled as a sequence of pieces: every format verb's argument  *)
(* and every literal segment of a format string is one piece, and the      *)
(* identifier quote is a piece of its own.  Text(pieces) is the string the *)
(* Go code builds.  A []string is a sequence of such piece sequences.      *)
(***************************************************************************)
EXTENDS Integers, Sequences, FiniteSets, TLC

VARIABLES
    c,            \* the receiver: Strict, AllowConvertString, AllowShotenIndexName
    statements,   \* the argument of Convert: CreateTables, CreateIndexes
    loopVarPerIteration, \* the build: Go >= 1.22 range-variable semantics or not
    pc,           \* position in Convert
    ti,           \* index (1-based) of the table the range loop is at
    converted,    \* local converted
    defs,         \* local defs
    err,          \* local err
    ret,          \* the values Convert returned: [text, err]
    handled       \* log: the errors Convert met, where, and what it did with each

vars == <<c, statements, loopVarPerIteration, pc, ti, converted, defs, err, ret, handled>>

-----------------------------------------------------------------------------
(* Bounds of the input documents. *)

MaxCols == 2
MaxKeys == 2
MaxTables == 2
MaxIndexes == 2

-----------------------------------------------------------------------------
(* Constants and package variables of converter.go. *)

header == "-- Auto-generated by jackup. DO NOT EDIT!\n--\n\n"
pseudoKeyLength == 255
varcharLimit == 256
indexNameLimit == 255

nil == "<nil>"
invalidInterleaveErr == "Invalid interleave"
invalidSpannerErr == "Invalid spanner type"
invalidKeyErr == "Invalid key"

\* The map toMysqlType; a tag outside MappedTags is not a key of the map.
MappedTags == {"Bool", "Int64", "Float64", "String", "Bytes", "Date", "Timestamp"}

toMysqlType(tag) ==
    CASE tag = "Bool" -> "TINYINT(1)"
      [] tag = "Int64" -> "BIGINT"
      [] tag = "Float64" -> "DOUBLE"
      [] tag = "String" -> "VARCHAR"
      [] tag = "Bytes" -> "BLOB"
      [] tag = "Date" -> "DATE"
      [] tag = "Timestamp" -> "TIMESTAMP"

-----------------------------------------------------------------------------
(* fmt.Sprintf and strings.Join. *)

Digit(d) ==
    CASE d = 0 -> "0" [] d = 1 -> "1" [] d = 2 -> "2" [] d = 3 -> "3"
      [] d = 4 -> "4" [] d = 5 -> "5" [] d = 6 -> "6" [] d = 7 -> "7"
      [] d = 8 -> "8" [] d = 9 -> "9"

\* fmt.Sprintf("%d", n)
RECURSIVE Itoa(_)
Itoa(n) ==
    IF n < 0 THEN "-" \o Itoa(-n)
    ELSE IF n < 10 THEN Digit(n)
    ELSE Itoa(n \div 10) \o Digit(n % 10)

\* The identifier quote of the format strings, the character U+0060.  A TLA+
\* string literal cannot hold that character; the piece is written as its escape.
backquote == "\\x60"

\* A quoted identifier: the identifier between two quote pieces.
Quote(s) == <<backquote, s, backquote>>

\* strings.Join over piece sequences: the elements with sep between them.
RECURSIVE Join(_, _)
Join(elems, sep) ==
    IF elems = <<>> THEN <<>>
    ELSE IF Len(elems) = 1 THEN elems[1]
    ELSE elems[1] \o <<sep>> \o Join(Tail(elems), sep)

\* The string a piece sequence stands for.
RECURSIVE Text(_)
Text(pieces) == IF pieces = <<>> THEN "" ELSE pieces[1] \o Text(Tail(pieces))

-----------------------------------------------------------------------------
(* getMysqlType: [type, err]. *)

getMysqlType(cv, t) ==
    IF t.TypeTag \in MappedTags
    THEN IF cv.AllowConvertString /\ t.TypeTag = "String"
         THEN IF t.Length > varcharLimit
              THEN [type |-> "TEXT", err |-> nil]
              ELSE [type |-> toMysqlType(t.TypeTag) \o Itoa(t.Length), err |-> nil]
         ELSE [type |-> toMysqlType(t.TypeTag), err |-> nil]
    ELSE [type |-> "", err |-> invalidSpannerErr]

(* getColumns: [cols, err]; cols is the []string of column definition lines. *)

\* Variant: the default is given to every TIMESTAMP column, nullable or not.
defaultValue_anyTimestamp(convertedType, col) ==
    IF convertedType = "TIMESTAMP" THEN "DEFAULT CURRENT_TIMESTAMP" ELSE ""

defaultValue(convertedType, col) ==
    IF convertedType = "TIMESTAMP" /\ col.NotNull THEN "DEFAULT CURRENT_TIMESTAMP" ELSE ""

nullability(col) == IF col.NotNull THEN "NOT NULL" ELSE "NULL"

columnLine(col, convertedType) ==
    <<"  ">> \o Quote(col.Name)
        \o <<" ", convertedType, " ", nullability(col), " ", defaultValue(convertedType, col)>>

RECURSIVE getColumnsFrom(_, _, _, _)
getColumnsFrom(cv, ct, j, cols) ==
    IF j > Len(ct.Columns) THEN [cols |-> cols, err |-> nil]
    ELSE LET mt == getMysqlType(cv, ct.Columns[j].Type)
         IN IF mt.err # nil
            THEN [cols |-> <<>>, err |-> mt.err]
            ELSE getColumnsFrom(cv, ct, j + 1, Append(cols, columnLine(ct.Columns[j], mt.type)))

getColumns(cv, ct) == getColumnsFrom(cv, ct, 1, <<>>)

-----------------------------------------------------------------------------
(* getPrimaryKey: [pk, err]. *)

\* Variant: the pseudo key length is given to TEXT columns only.
keyName_textOnly(cv, pk, col) ==
    LET mt == getMysqlType(cv, col.Type)
    IN IF mt.err = nil /\ mt.type = "TEXT"
       THEN Quote(pk.Name) \o <<"(", Itoa(pseudoKeyLength), ")">>
       ELSE Quote(pk.Name)

\* The key text of one matched column: the quoted name, and the pseudo key
\* length when the column maps to TEXT or BLOB.
keyName(cv, pk, col) ==
    LET mt == getMysqlType(cv, col.Type)
    IN IF mt.err = nil /\ (mt.type = "TEXT" \/ mt.type = "BLOB")
       THEN Quote(pk.Name) \o <<"(", Itoa(pseudoKeyLength), ")">>
       ELSE Quote(pk.Name)

\* Variant: the precondition is not checked.
nullableKey_unchecked(col) == FALSE

\* The precondition of line 93, negated: the column may be null.
nullableKey(col) == ~col.NotNull

\* The two nested range loops, at key part i and column j, with the key names
\* collected so far; then the comparison of the lengths.
RECURSIVE getPrimaryKeyFrom(_, _, _, _, _)
getPrimaryKeyFrom(cv, ct, i, j, keyNames) ==
    IF i > Len(ct.PrimaryKeys)
    THEN IF Len(ct.PrimaryKeys) = Len(keyNames)
         THEN [pk |-> <<"  PRIMARY KEY (">> \o Join(keyNames, ", ") \o <<")">>, err |-> nil]
         ELSE [pk |-> <<>>, err |-> invalidKeyErr]
    ELSE IF j > Len(ct.Columns)
    THEN getPrimaryKeyFrom(cv, ct, i + 1, 1, keyNames)
    ELSE IF ct.Columns[j].Name = ct.PrimaryKeys[i].Name
    THEN IF nullableKey(ct.Columns[j])
         THEN [pk |-> <<>>, err |-> invalidKeyErr]
         ELSE getPrimaryKeyFrom(cv, ct, i, j + 1,
                  Append(keyNames, keyName(cv, ct.PrimaryKeys[i], ct.Columns[j])))
    ELSE getPrimaryKeyFrom(cv, ct, i, j + 1, keyNames)

getPrimaryKey(cv, ct) == getPrimaryKeyFrom(cv, ct, 1, 1, <<>>)

-----------------------------------------------------------------------------
(* getRelation: [relation, err]. *)

\* The first loop: the index of the first table named as the child's parent,
\* 0 when there is none (parent == nil).
RECURSIVE findParent(_, _, _)
findParent(child, maybeParents, k) ==
    IF k > Len(maybeParents) THEN 0
    ELSE IF child.Cluster.TableName = maybeParents[k].TableName THEN k
    ELSE findParent(child, maybeParents, k + 1)

\* The inner loop: some parent column has the name and the type of cc.
sharedWithParent(cc, parent) ==
    \E k \in 1..Len(parent.Columns) :
        cc.Name = parent.Columns[k].Name /\ cc.Type = parent.Columns[k].Type

\* The outer loop, which has no break: the index of the last child column that
\* assigned keyCol = &cc, 0 when none did (keyCol == nil).
RECURSIVE findKeyCol(_, _, _, _)
findKeyCol(child, parent, j, found) ==
    IF j > Len(child.Columns) THEN found
    ELSE findKeyCol(child, parent, j + 1,
             IF sharedWithParent(child.Columns[j], parent) THEN j ELSE found)

\* What *keyCol is after the loop.  keyCol is the address of the range
\* variable cc: one variable per iteration in a Go >= 1.22 build (it keeps the
\* matched column), one variable for the whole loop before (it holds the last
\* child column the loop visited).
keyColValue(perIteration, child, found) ==
    IF perIteration THEN child.Columns[found] ELSE child.Columns[Len(child.Columns)]

foreignKey(keyCol, parent) ==
    <<"  FOREIGN KEY (">> \o Quote(keyCol.Name) \o <<") REFERENCES ">>
        \o Quote(parent.TableName) \o <<" (">> \o Quote(keyCol.Name) \o <<")">>

\* The test of line 147, on the result of getMysqlType for the key column.
unsupportedKey(mt) == mt.err = nil \/ mt.type = "TEXT" \/ mt.type = "BLOB"

getRelation(cv, perIteration, child, maybeParents) ==
    IF child.Cluster.TableName = "" THEN [relation |-> <<>>, err |-> nil]
    ELSE LET p == findParent(child, maybeParents, 1)
         IN IF p = 0 THEN [relation |-> <<>>, err |-> invalidInterleaveErr]
            ELSE LET parent == maybeParents[p]
                     found == findKeyCol(child, parent, 1, 0)
                 IN IF found = 0 THEN [relation |-> <<>>, err |-> invalidInterleaveErr]
                    ELSE LET keyCol == keyColValue(perIteration, child, found)
                         IN IF unsupportedKey(getMysqlType(cv, keyCol.Type))
                            THEN [relation |-> <<>>, err |-> invalidKeyErr]
                            ELSE [relation |-> foreignKey(keyCol, parent), err |-> nil]

-----------------------------------------------------------------------------
(* getIndexes: the []string of index clauses. *)

RECURSIVE quotedKeys(_)
quotedKeys(keys) ==
    IF keys = <<>> THEN <<>> ELSE <<Quote(keys[1].Name)>> \o quotedKeys(Tail(keys))

indexName(cv, i) ==
    IF cv.AllowShotenIndexName /\ Len(i.IndexName) > indexNameLimit THEN "" ELSE i.IndexName

indexClause(cv, i) ==
    IF i.Unique
    THEN <<"  INDEX ">> \o Quote(indexName(cv, i)) \o <<" (">>
             \o Join(quotedKeys(i.Keys), ", ") \o <<")">>
    ELSE <<"  UNIQUE (">> \o Join(quotedKeys(i.Keys), ", ") \o <<")">>

RECURSIVE getIndexesFrom(_, _, _, _)
getIndexesFrom(cv, table, indexes, k) ==
    IF k > Len(indexes) THEN <<>>
    ELSE IF table.TableName = indexes[k].TableName
    THEN <<indexClause(cv, indexes[k])>> \o getIndexesFrom(cv, table, indexes, k + 1)
    ELSE getIndexesFrom(cv, table, indexes, k + 1)

getIndexes(cv, table, indexes) == getIndexesFrom(cv, table, indexes, 1)

-----------------------------------------------------------------------------
(* Convert, one action per statement group of the loop body. *)

ct == statements.CreateTables[ti]

createTable(table) == <<"CREATE TABLE ", table.TableName, " (\n">>

closeTable(ds) == Join(ds, ",\n") \o <<"\n);\n">>

\* Variant: the definition is put in front.
appendDef_front(ds, d) == <<d>> \o ds

\* append(defs, d)
appendDef(ds, d) == Append(ds, d)

\* The log entry of an error met at a call site, and what Convert did.
Handled(site, e, policy) == handled \cup {[site |-> site, err |-> e, policy |-> policy]}

\* Variant: the text converted so far is returned with the error.
ReturnErr_partial(e) ==
    /\ pc' = "done"
    /\ ret' = [text |-> <<header>> \o converted, err |-> e]

\* return "", err
ReturnErr(e) ==
    /\ pc' = "done"
    /\ ret' = [text |-> <<>>, err |-> e]

\* Lines 183-184: the loop takes the next table and opens its block.
BeginTable ==
    /\ pc = "loop"
    /\ ti < Len(statements.CreateTables)
    /\ ti' = ti + 1
    /\ converted' = converted \o createTable(statements.CreateTables[ti + 1])
    /\ pc' = "getColumns"
    /\ UNCHANGED <<c, statements, loopVarPerIteration, defs, err, ret, handled>>

\* Lines 186-189.
GetColumns ==
    /\ pc = "getColumns"
    /\ LET r == getColumns(c, ct)
       IN /\ defs' = r.cols
          /\ err' = r.err
          /\ IF r.err # nil
             THEN ReturnErr(r.err) /\ handled' = Handled("getColumns", r.err, "abort")
             ELSE pc' = "getPrimaryKey" /\ ret' = ret /\ handled' = handled
    /\ UNCHANGED <<c, statements, loopVarPerIteration, ti, converted>>

\* Lines 191-198.
GetPrimaryKey ==
    /\ pc = "getPrimaryKey"
    /\ LET r == getPrimaryKey(c, ct)
       IN /\ err' = r.err
          /\ IF r.err # nil
             THEN IF r.err # invalidKeyErr
                  THEN /\ ReturnErr(r.err)
                       /\ defs' = defs
                       /\ handled' = Handled("getPrimaryKey", r.err, "abort")
                  ELSE /\ pc' = "getRelation"
                       /\ defs' = defs
                       /\ ret' = ret
                       /\ handled' = Handled("getPrimaryKey", r.err, "continue")
             ELSE /\ pc' = "getRelation"
                  /\ defs' = appendDef(defs, r.pk)
                  /\ ret' = ret
                  /\ handled' = handled
    /\ UNCHANGED <<c, statements, loopVarPerIteration, ti, converted>>

\* Lines 200-208.
GetRelation ==
    /\ pc = "getRelation"
    /\ LET r == getRelation(c, loopVarPerIteration, ct, statements.CreateTables)
       IN /\ err' = r.err
          /\ IF r.err # nil
             THEN IF r.err # invalidKeyErr
                  THEN /\ ReturnErr(r.err)
                       /\ defs' = defs
                       /\ handled' = Handled("getRelation", r.err, "abort")
                  ELSE /\ pc' = "getIndexes"
                       /\ defs' = defs
                       /\ ret' = ret
                       /\ handled' = Handled("getRelation", r.err, "continue")
             ELSE /\ pc' = "getIndexes"
                  /\ defs' = IF r.relation # <<>> THEN appendDef(defs, r.relation) ELSE defs
                  /\ ret' = ret
                  /\ handled' = handled
    /\ UNCHANGED <<c, statements, loopVarPerIteration, ti, converted>>

\* Lines 210-213: the index clauses, and the block is closed.
GetIndexes ==
    /\ pc = "getIndexes"
    /\ LET ds == defs \o getIndexes(c, ct, statements.CreateIndexes)
       IN /\ defs' = ds
          /\ converted' = converted \o closeTable(ds)
    /\ pc' = "loop"
    /\ UNCHANGED <<c, statements, loopVarPerIteration, ti, err, ret, handled>>

\* Line 216: the loop is over.
Return ==
    /\ pc = "loop"
    /\ ti = Len(statements.CreateTables)
    /\ pc' = "done"
    /\ ret' = [text |-> <<header>> \o converted, err |-> nil]
    /\ UNCHANGED <<c, statements, loopVarPerIteration, ti, converted, defs, err, handled>>

Next == BeginTable \/ GetColumns \/ GetPrimaryKey \/ GetRelation \/ GetIndexes \/ Return

-----------------------------------------------------------------------------
(* The input documents: values of types.DDStatements, and the receivers. *)

TableNames == <<"Users", "Orders", "Items", "Events">>
ColNames == <<"id", "user_id", "created_at", "note">>
IndexNames == <<"idx_a", "idx_b", "idx_c", "idx_d">>
NoTable == "Ghost"
\* The lengths: one of every kind the converter tells apart (negative, as
\* decimal_value allows; zero; up to, at and above the VARCHAR limit; large).
\* The length MAX of the grammar is the Length the parser stores for it, of
\* one of these kinds, or a mark outside TypeTag and Length (Mark).
Lengths == {-1, 0, 1, 100, 256, 257, 300, 2621440}

\* Mark is what a types.ColumnType value holds besides TypeTag and Length, the
\* two fields the converter reads: nothing more (""), the mark of ARRAY<...>,
\* the mark of the length MAX.  The converter sees it only when it compares
\* two types whole (line 135).

RECURSIVE Repeat(_, _)
Repeat(s, n) ==
    IF n = 0 THEN ""
    ELSE IF n % 2 = 0 THEN LET half == Repeat(s, n \div 2) IN half \o half
    ELSE s \o Repeat(s, n - 1)

\* An index name longer than indexNameLimit.
LongName(name) == name \o Repeat("x", indexNameLimit)

Scalar(tag) == [TypeTag |-> tag, Length |-> 0, Mark |-> ""]
Sized(tag, n) == [TypeTag |-> tag, Length |-> n, Mark |-> ""]
Marked(t, mark) == [TypeTag |-> t.TypeTag, Length |-> t.Length, Mark |-> mark]

ScalarTypes ==
    {Scalar(t) : t \in {"Bool", "Int64", "Float64", "Date", "Timestamp"}}
        \cup {Sized(t, n) : t \in {"String", "Bytes"}, n \in Lengths}

\* Every column type of the grammar: the scalar types; the same as the element
\* type of an array; STRING and BYTES of length MAX, whatever Length stands
\* for it; and a tag that toMysqlType has no entry for (an array type, if the
\* parser gives arrays a tag of their own).
AllTypes ==
    ScalarTypes
        \cup {Marked(t, "array") : t \in ScalarTypes}
        \cup {Marked(t, "max") : t \in {u \in ScalarTypes : u.TypeTag \in {"String", "Bytes"}}}
        \cup {Marked(Scalar("Unknown"), m) : m \in {"", "array"}}

Kinds(types) == {[Type |-> t, NotNull |-> b] : t \in types, b \in BOOLEAN}

\* Column lists of at most n columns, the j-th named ColNames[j].
ColumnLists(kinds, n) ==
    UNION {{[j \in 1..k |-> [Name |-> ColNames[j], Type |-> f[j].Type, NotNull |-> f[j].NotNull]] :
               f \in [1..k -> kinds]} : k \in 0..n}

\* Key lists of at most n parts over the first m column names.
KeyLists(m, n) ==
    UNION {{[i \in 1..k |-> [Name |-> ColNames[f[i]]]] : f \in [1..k -> 1..m]} : k \in 0..n}

Table(name, cols, keys, parentName) ==
    [TableName |-> name, Columns |-> cols, PrimaryKeys |-> keys,
     Cluster |-> [TableName |-> parentName]]

Receivers(strict, convertString, shortenName) ==
    [Strict : strict, AllowConvertString : convertString, AllowShotenIndexName : shortenName]

Inputs(docs, receivers) == {[statements |-> d, c |-> r] : d \in docs, r \in receivers}

\* One table of one column of any type, interleaved or not.
TypeDocs ==
    {[CreateTables |-> <<Table(TableNames[1], cols, keys, parentName)>>, CreateIndexes |-> <<>>] :
        cols \in ColumnLists(Kinds(AllTypes), 1) \ {<<>>},
        keys \in KeyLists(1, 1),
        parentName \in {"", NoTable}}

\* One table with up to MaxCols columns and up to MaxKeys key parts.
KeyTypes ==
    {Scalar("Int64"), Scalar("Timestamp"), Sized("String", 100), Sized("String", 300),
     Sized("Bytes", 10)}

KeyKinds == Kinds(KeyTypes) \ {[Type |-> t, NotNull |-> FALSE] : t \in KeyTypes \ {Scalar("Int64")}}

KeyDocs ==
    {[CreateTables |-> <<Table(TableNames[1], cols, keys, "")>>, CreateIndexes |-> <<>>] :
        cols \in ColumnLists(KeyKinds, MaxCols), keys \in KeyLists(MaxCols, MaxKeys)}

\* Up to MaxTables tables, the k-th named TableNames[k], each interleaved in
\* the first or the second table (not in itself), in no table, or in a table
\* that is not there.
Int64NN == [Type |-> Scalar("Int64"), NotNull |-> TRUE]
Int64Null == [Type |-> Scalar("Int64"), NotNull |-> FALSE]
TextNN == [Type |-> Sized("String", 300), NotNull |-> TRUE]
Int64ArrayNN == [Type |-> Marked(Scalar("Int64"), "array"), NotNull |-> TRUE]

RelationColumnLists ==
    {[j \in 1..Len(ks) |-> [Name |-> ColNames[j], Type |-> ks[j].Type, NotNull |-> ks[j].NotNull]] :
        ks \in {<<Int64NN>>, <<Int64NN, Int64NN>>, <<Int64ArrayNN>>, <<TextNN, Int64NN>>,
                <<Int64Null, Int64NN>>}}

RelationTables(k) ==
    {Table(TableNames[k], cols, <<[Name |-> ColNames[1]]>>, parentName) :
        cols \in RelationColumnLists,
        parentName \in {"", TableNames[1], TableNames[2], NoTable} \ {TableNames[k]}}

\* The table lists of exactly n tables.
RECURSIVE RelationTableLists(_)
RelationTableLists(n) ==
    IF n = 0 THEN {<<>>}
    ELSE {Append(ts, t) : ts \in RelationTableLists(n - 1), t \in RelationTables(n)}

RelationDocs ==
    {[CreateTables |-> ts, CreateIndexes |-> <<>>] :
        ts \in UNION {RelationTableLists(n) : n \in 0..MaxTables}}

\* Two tables and up to MaxIndexes indexes on them, the k-th named
\* IndexNames[k] or a long name.
IndexChoices(k) ==
    {[IndexName |-> name, TableName |-> t, Unique |-> u, Keys |-> keys] :
        name \in {IndexNames[k], LongName(IndexNames[k])},
        t \in {TableNames[1], TableNames[2]},
        u \in BOOLEAN,
        keys \in {<<[Name |-> ColNames[1]]>>, <<[Name |-> ColNames[2]], [Name |-> ColNames[1]]>>}}

\* The index lists of exactly n indexes.
RECURSIVE IndexListsOf(_)
IndexListsOf(n) ==
    IF n = 0 THEN {<<>>}
    ELSE {Append(is, i) : is \in IndexListsOf(n - 1), i \in IndexChoices(n)}

IndexLists == UNION {IndexListsOf(n) : n \in 0..MaxIndexes}

IndexedTables ==
    <<Table(TableNames[1],
            <<[Name |-> ColNames[1], Type |-> Scalar("Int64"), NotNull |-> TRUE],
              [Name |-> ColNames[2], Type |-> Scalar("Int64"), NotNull |-> TRUE]>>,
            <<[Name |-> ColNames[1]]>>, ""),
      Table(TableNames[2],
            <<[Name |-> ColNames[1], Type |-> Scalar("Int64"), NotNull |-> TRUE]>>,
            <<[Name |-> ColNames[1]]>>, "")>>

IndexDocs == {[CreateTables |-> IndexedTables, CreateIndexes |-> is] : is \in IndexLists}

InitialInputs ==
    Inputs(TypeDocs, Receivers(BOOLEAN, BOOLEAN, BOOLEAN))
        \cup Inputs(KeyDocs, Receivers({FALSE}, BOOLEAN, {FALSE}))
        \cup Inputs(RelationDocs, Receivers({FALSE}, BOOLEAN, {FALSE}))
        \cup Inputs(IndexDocs, Receivers({FALSE}, {FALSE}, BOOLEAN))

Init ==
    /\ \E in \in InitialInputs : statements = in.statements /\ c = in.c
    /\ loopVarPerIteration \in BOOLEAN
    /\ pc = "loop"
    /\ ti = 0
    /\ converted = <<>>
    /\ defs = <<>>
    /\ err = nil
    /\ ret = [text |-> <<>>, err |-> nil]
    /\ handled = {}

Spec == Init /\ [][Next]_vars

-----------------------------------------------------------------------------
(* Vocabulary of the properties. *)

tables == statements.CreateTables

PrimaryKeyMarker == "  PRIMARY KEY ("
ForeignKeyMarker == "  FOREIGN KEY ("

Range(f) == {f[i] : i \in DOMAIN f}

\* The declared columns of a table that a key part names.
ColumnsNamed(table, name) == {j \in DOMAIN table.Columns : table.Columns[j].Name = name}

UniqueColumnNames(table) ==
    \A j, k \in DOMAIN table.Columns : table.Columns[j].Name = table.Columns[k].Name => j = k

\* Some key part names no declared column, or a column that may be null.
BadKey(table) ==
    \E i \in DOMAIN table.PrimaryKeys :
        \/ ColumnsNamed(table, table.PrimaryKeys[i].Name) = {}
        \/ \E j \in ColumnsNamed(table, table.PrimaryKeys[i].Name) : ~table.Columns[j].NotNull

\* The target type is one of the unbounded ones.
Unbounded(t) == getMysqlType(c, t).type \in {"TEXT", "BLOB"}

Unsupported(table) == \E j \in DOMAIN table.Columns : table.Columns[j].Type.TypeTag \notin MappedTags

\* The table is interleaved in a table that the document does not hold.
Dangling(table) ==
    /\ table.Cluster.TableName # ""
    /\ \A k \in DOMAIN tables : tables[k].TableName # table.Cluster.TableName

\* Convert has returned successfully / with an error.
Succeeded == pc = "done" /\ ret.err = nil
Failed == pc = "done" /\ ret.err # nil

\* The k-th block of the output text: from the k-th "CREATE TABLE " piece up to
\* the next one.
BlockStarts(text) == {i \in DOMAIN text : text[i] = "CREATE TABLE "}

NthOf(S, k) == CHOOSE i \in S : Cardinality({j \in S : j < i}) = k - 1

Block(text, k) ==
    LET S == BlockStarts(text)
    IN SubSeq(text, NthOf(S, k), IF k < Cardinality(S) THEN NthOf(S, k + 1) - 1 ELSE Len(text))

\* The clauses of a block: what lies between its opening, the separators
\* ",\n" and its closing piece.
RECURSIVE SplitAt(_, _, _)
SplitAt(pieces, sep, cur) ==
    IF pieces = <<>> THEN <<cur>>
    ELSE IF pieces[1] = sep THEN <<cur>> \o SplitAt(Tail(pieces), sep, <<>>)
    ELSE SplitAt(Tail(pieces), sep, Append(cur, pieces[1]))

OpeningEnd(block) == CHOOSE i \in DOMAIN block : block[i] = " (\n" /\ \A j \in 1..(i - 1) : block[j] # " (\n"

Clauses(block) == SplitAt(SubSeq(block, OpeningEnd(block) + 1, Len(block) - 1), ",\n", <<>>)

\* What a clause is, by its first piece.
ClauseClass(clause) ==
    IF clause = <<>> THEN "empty"
    ELSE CASE clause[1] = "  " -> "column"
           [] clause[1] = PrimaryKeyMarker -> "primary key"
           [] clause[1] = ForeignKeyMarker -> "foreign key"
           [] clause[1] \in {"  INDEX ", "  UNIQUE ("} -> "index"
           [] OTHER -> "other"

ClassRank(class) ==
    CASE class = "column" -> 1
      [] class = "primary key" -> 2
      [] class = "foreign key" -> 3
      [] class = "index" -> 4
      [] OTHER -> 0

-----------------------------------------------------------------------------
(* The properties. *)

\* The states in which defs holds the column lines of the current table.
ColumnsDone == pc \in {"getPrimaryKey", "getRelation", "getIndexes"} \/ (pc = "loop" /\ ti >= 1)

\* C9. Timestamp default: the definition line of a column holds
\* DEFAULT CURRENT_TIMESTAMP exactly when the column maps to TIMESTAMP and is
\* not null, and its nullability text is NOT NULL when the column is not null
\* and NULL otherwise.
C9_TimestampDefault ==
    ColumnsDone =>
        /\ Len(defs) >= Len(ct.Columns)
        /\ \A j \in DOMAIN ct.Columns :
              LET col == ct.Columns[j]
                  line == defs[j]
              IN /\ ("DEFAULT CURRENT_TIMESTAMP" \in Range(line))
                        <=> (getMysqlType(c, col.Type).type = "TIMESTAMP" /\ col.NotNull)
                 /\ line[3] = col.Name
                 /\ line[8] = IF col.NotNull THEN "NOT NULL" ELSE "NULL"
                 /\ Len(line) = 10

C9_Witness ==
    /\ pc = "getPrimaryKey"
    /\ \E j \in DOMAIN ct.Columns :
          /\ ct.Columns[j].Type.TypeTag = "Timestamp"
          /\ ct.Columns[j].NotNull
          /\ defs[j][10] = "DEFAULT CURRENT_TIMESTAMP"

\* C4. Primary key not-null invariant: for a table with unique column names,
\* getPrimaryKey fails, with the invalid-key error, exactly when some key part
\* names no declared column or a nullable one; then no PRIMARY KEY clause is
\* returned, and the block of that table in the text Convert returns holds no
\* PRIMARY KEY clause.
C4_PrimaryKeyNotNull ==
    /\ (pc = "getRelation" /\ UniqueColumnNames(ct)) =>
          /\ err \in {nil, invalidKeyErr}
          /\ (err = invalidKeyErr) <=> BadKey(ct)
          /\ BadKey(ct) => \A n \in DOMAIN defs : defs[n][1] # PrimaryKeyMarker
    /\ Succeeded =>
          \A k \in DOMAIN tables :
              (UniqueColumnNames(tables[k]) /\ BadKey(tables[k]))
                  => PrimaryKeyMarker \notin Range(Block(ret.text, k))

C4_Witness ==
    /\ Succeeded
    /\ \E k \in DOMAIN tables :
          /\ \E i \in DOMAIN tables[k].PrimaryKeys :
                \E j \in ColumnsNamed(tables[k], tables[k].PrimaryKeys[i].Name) :
                    ~tables[k].Columns[j].NotNull
          /\ PrimaryKeyMarker \notin Range(Block(ret.text, k))
    /\ \E k \in DOMAIN tables :
          /\ ~BadKey(tables[k])
          /\ PrimaryKeyMarker \in Range(Block(ret.text, k))

\* C8. Unbounded key length suffix: when getPrimaryKey succeeds the clause is
\* PRIMARY KEY (k1, k2, ...) with one key text per key part in declared order;
\* the key text is the quoted column name followed by (255) exactly when the
\* column maps to TEXT or BLOB, and the quoted column name alone otherwise.
ExpectedKeyText(table, part) ==
    LET col == table.Columns[CHOOSE j \in ColumnsNamed(table, part.Name) : TRUE]
    IN IF Unbounded(col.Type)
       THEN <<backquote, part.Name, backquote, "(", "255", ")">>
       ELSE <<backquote, part.Name, backquote>>

ExpectedPrimaryKey(table) ==
    <<PrimaryKeyMarker>>
        \o Join([i \in DOMAIN table.PrimaryKeys |-> ExpectedKeyText(table, table.PrimaryKeys[i])], ", ")
        \o <<")">>

C8_KeyLengthSuffix ==
    (pc = "getRelation" /\ err = nil) =>
        /\ defs # <<>>
        /\ defs[Len(defs)] = ExpectedPrimaryKey(ct)

C8_Witness ==
    /\ pc = "getRelation"
    /\ err = nil
    /\ Len(ct.PrimaryKeys) >= 2
    /\ \E i, k \in DOMAIN ct.PrimaryKeys :
          /\ i < k
          /\ ExpectedKeyText(ct, ct.PrimaryKeys[i]) = <<backquote, ct.PrimaryKeys[i].Name, backquote>>
          /\ getMysqlType(c, ct.Columns[CHOOSE j \in ColumnsNamed(ct, ct.PrimaryKeys[k].Name) : TRUE].Type).type = "TEXT"
          /\ defs[Len(defs)][Len(defs[Len(defs)]) - 2] = "255"

\* C7. Order preservation: when Convert succeeds its text is the header
\* followed by exactly one CREATE TABLE ... ); block per table, the k-th block
\* that of the k-th table; in a block the column definitions come first, in
\* declared order, then the primary key clause if there is one, then the
\* foreign key clause if there is one, then the index clauses.
IndexesOn(table) ==
    {n \in DOMAIN statements.CreateIndexes : statements.CreateIndexes[n].TableName = table.TableName}

BlockInOrder(block, table) ==
    LET cls == Clauses(block)
        used == IF cls = <<<<>>>> THEN <<>> ELSE cls
        class == [n \in DOMAIN used |-> ClauseClass(used[n])]
    IN /\ block[1] = "CREATE TABLE "
       /\ table.TableName \in Range(SubSeq(block, 2, OpeningEnd(block) - 1))
       /\ block[Len(block)] = "\n);\n"
       /\ "\n);\n" \notin Range(SubSeq(block, 1, Len(block) - 1))
       /\ \A n \in DOMAIN class : ClassRank(class[n]) >= 1
       /\ \A n, m \in DOMAIN class : n < m => ClassRank(class[n]) <= ClassRank(class[m])
       /\ Cardinality({n \in DOMAIN class : class[n] = "column"}) = Len(table.Columns)
       /\ \A j \in DOMAIN table.Columns : j \in DOMAIN used /\ used[j][3] = table.Columns[j].Name
       /\ Cardinality({n \in DOMAIN class : class[n] = "primary key"}) <= 1
       /\ Cardinality({n \in DOMAIN class : class[n] = "foreign key"}) <= 1
       /\ Cardinality({n \in DOMAIN class : class[n] = "index"}) = Cardinality(IndexesOn(table))

C7_OrderPreservation ==
    Succeeded =>
        /\ ret.text # <<>>
        /\ ret.text[1] = header
        /\ Cardinality(BlockStarts(ret.text)) = Len(tables)
        /\ tables = <<>> => ret.text = <<header>>
        /\ tables # <<>> => 2 \in BlockStarts(ret.text)
        /\ \A k \in DOMAIN tables : BlockInOrder(Block(ret.text, k), tables[k])

C7_Witness ==
    /\ Succeeded
    /\ Len(tables) >= 2
    /\ tables[1].TableName # tables[2].TableName
    /\ \E k \in DOMAIN tables :
          LET cls == Clauses(Block(ret.text, k))
          IN /\ Len(cls) >= 4
             /\ ClauseClass(cls[1]) = "column"
             /\ ClauseClass(cls[2]) = "column"
             /\ ClauseClass(cls[3]) = "primary key"
             /\ ClauseClass(cls[4]) = "index"

\* C5 as stated. Missing parent: if some table is interleaved in a table that
\* the document does not hold, getRelation fails with the invalid-interleave
\* error and Convert returns that error with empty text.
C5_MissingParent_AsStated ==
    (pc = "done" /\ \E k \in DOMAIN tables : Dangling(tables[k])) =>
        /\ ret.err = invalidInterleaveErr
        /\ ret.text = <<>>

\* C5, amended. If some table is interleaved in a table that the document does
\* not hold (anywhere in it), Convert returns an error and empty text, whatever
\* it had converted; the error is the invalid-interleave error of getRelation
\* unless a column of that table or of a table before it has an unsupported
\* type, which getColumns reports first.  getRelation gives no FOREIGN KEY
\* clause for such a table, and the invalid-interleave error comes only from a
\* table whose parent is missing or shares no column with it.
FirstDangling == CHOOSE k \in DOMAIN tables : Dangling(tables[k]) /\ \A j \in 1..(k - 1) : ~Dangling(tables[j])

SharesColumn(child, parent) ==
    \E j \in DOMAIN child.Columns : \E k \in DOMAIN parent.Columns :
        /\ child.Columns[j].Name = parent.Columns[k].Name
        /\ child.Columns[j].Type = parent.Columns[k].Type

C5_MissingParent ==
    /\ (pc = "done" /\ \E k \in DOMAIN tables : Dangling(tables[k])) =>
          /\ ret.text = <<>>
          /\ ret.err \in {invalidInterleaveErr, invalidSpannerErr}
          /\ (\A k \in 1..FirstDangling : ~Unsupported(tables[k])) =>
                 /\ ret.err = invalidInterleaveErr
                 /\ err = invalidInterleaveErr
                 /\ ti <= FirstDangling
                 /\ \A n \in DOMAIN defs : defs[n][1] # ForeignKeyMarker
    /\ (ti >= 1 /\ pc = "getIndexes") => ~Dangling(ct)
    /\ (pc = "done" /\ ret.err = invalidInterleaveErr) =>
          \/ Dangling(ct)
          \/ \E k \in DOMAIN tables :
                /\ tables[k].TableName = ct.Cluster.TableName
                /\ ~SharesColumn(ct, tables[k])

C5_Witness ==
    /\ pc = "done"
    /\ ti = 2
    /\ Dangling(tables[2])
    /\ ~Dangling(tables[1])
    /\ "\n);\n" \in Range(converted)
    /\ ret = [text |-> <<>>, err |-> invalidInterleaveErr]

\* C1. Interleave to foreign key: for a child table whose parent is in the
\* document and shares with it a column (same name, same type) whose target
\* type is neither TEXT nor BLOB, getRelation gives no error and the clause
\* FOREIGN KEY (col) REFERENCES parent (col) for a shared column col, and the
\* block of the child holds that clause.
RelationDone ==
    \/ pc = "getIndexes"
    \/ pc = "done" /\ \E h \in handled : h.site = "getRelation" /\ h.policy = "abort"

SharedColumns(child, parent) ==
    {j \in DOMAIN child.Columns :
        \E k \in DOMAIN parent.Columns :
            /\ child.Columns[j].Name = parent.Columns[k].Name
            /\ child.Columns[j].Type = parent.Columns[k].Type}

Keyable(t) == t.TypeTag \in MappedTags /\ ~Unbounded(t)

ExpectedForeignKey(col, parent) ==
    <<ForeignKeyMarker, backquote, col.Name, backquote, ") REFERENCES ",
      backquote, parent.TableName, backquote, " (", backquote, col.Name, backquote, ")">>

C1_InterleaveToForeignKey ==
    RelationDone =>
        \A p \in DOMAIN tables :
            (/\ ct.Cluster.TableName = tables[p].TableName
             /\ \E j \in SharedColumns(ct, tables[p]) : Keyable(ct.Columns[j].Type))
                => /\ err = nil
                   /\ \E j \in SharedColumns(ct, tables[p]) :
                         \E n \in DOMAIN defs : defs[n] = ExpectedForeignKey(ct.Columns[j], tables[p])

\* C2. Index conversion: for the table being emitted getIndexes gives one
\* clause per index on that table and none for the others, in the order of the
\* index collection, with the keys in declared order: UNIQUE (k1, k2, ...)
\* for a unique index, INDEX name (k1, k2, ...) otherwise.
ExpectedKeys(keys) == Join([n \in DOMAIN keys |-> <<backquote, keys[n].Name, backquote>>], ", ")

ExpectedIndexClause(i) ==
    IF i.Unique
    THEN <<"  UNIQUE (">> \o ExpectedKeys(i.Keys) \o <<")">>
    ELSE <<"  INDEX ", backquote, i.IndexName, backquote, " (">> \o ExpectedKeys(i.Keys) \o <<")">>

RECURSIVE ExpectedIndexClauses(_, _)
ExpectedIndexClauses(table, indexes) ==
    IF indexes = <<>> THEN <<>>
    ELSE (IF indexes[1].TableName = table.TableName THEN <<ExpectedIndexClause(indexes[1])>> ELSE <<>>)
             \o ExpectedIndexClauses(table, Tail(indexes))

C2_IndexConversion ==
    (pc = "loop" /\ ti >= 1) =>
        LET expected == ExpectedIndexClauses(ct, statements.CreateIndexes)
        IN /\ Len(defs) >= Len(expected)
           /\ SubSeq(defs, Len(defs) - Len(expected) + 1, Len(defs)) = expected
           /\ \A n \in 1..(Len(defs) - Len(expected)) : ClauseClass(defs[n]) # "index"

\* C3. Type mapping: Bool maps to TINYINT(1), Int64 to BIGINT, Float64 to
\* DOUBLE, Date to DATE, Timestamp to TIMESTAMP, Bytes of any length to BLOB,
\* String(n) to VARCHAR(n) for n <= 256 and to TEXT for n > 256, whatever the
\* converter's configuration, and String(MAX) to TEXT (array types are not in
\* the table); a tag outside the table is the unsupported-type
\* error, and Convert of a document with such a column returns that error and
\* no text.
ExpectedType(t) ==
    CASE t.TypeTag = "Bool" -> "TINYINT(1)"
      [] t.TypeTag = "Int64" -> "BIGINT"
      [] t.TypeTag = "Float64" -> "DOUBLE"
      [] t.TypeTag = "Date" -> "DATE"
      [] t.TypeTag = "Timestamp" -> "TIMESTAMP"
      [] t.TypeTag = "Bytes" -> "BLOB"
      [] t.TypeTag = "String" ->
            IF t.Mark # "max" /\ t.Length <= 256
            THEN "VARCHAR(" \o ToString(t.Length) \o ")"
            ELSE "TEXT"

C3_TypeMapping ==
    /\ pc = "getPrimaryKey" =>
          \A j \in DOMAIN ct.Columns :
              ct.Columns[j].Type.Mark # "array" => defs[j][6] = ExpectedType(ct.Columns[j].Type)
    /\ (ti >= 1 /\ pc # "getColumns" /\ Unsupported(ct)) =>
          /\ pc = "done"
          /\ ret = [text |-> <<>>, err |-> invalidSpannerErr]

\* C6. Uniform error policy: Convert does the same (abort the document, or
\* omit the clause and continue) with a primary key that fails with the
\* invalid-key error, a relation that fails with the invalid-key error and a
\* relation that fails with the invalid-interleave error.
PolicyCases ==
    {h \in handled :
        \/ h.site = "getPrimaryKey" /\ h.err = invalidKeyErr
        \/ h.site = "getRelation" /\ h.err \in {invalidKeyErr, invalidInterleaveErr}}

C6_UniformErrorPolicy == \A g, h \in PolicyCases : g.policy = h.policy

\* C10. Identifier quoting: in the text of a successful Convert every
\* identifier (table name, column name, key column, index name, parent table)
\* stands between two identifier quotes.
Identifiers ==
    {tables[k].TableName : k \in DOMAIN tables}
        \cup UNION {{tables[k].Columns[j].Name : j \in DOMAIN tables[k].Columns} : k \in DOMAIN tables}
        \cup UNION {{tables[k].PrimaryKeys[j].Name : j \in DOMAIN tables[k].PrimaryKeys} : k \in DOMAIN tables}
        \cup {statements.CreateIndexes[n].IndexName : n \in DOMAIN statements.CreateIndexes}
        \cup UNION {{statements.CreateIndexes[n].Keys[j].Name : j \in DOMAIN statements.CreateIndexes[n].Keys} :
                       n \in DOMAIN statements.CreateIndexes}

C10_IdentifierQuoting ==
    Succeeded =>
        \A i \in DOMAIN ret.text :
            ret.text[i] \in Identifiers =>
                /\ i > 1
                /\ i < Len(ret.text)
                /\ ret.text[i - 1] = backquote
                /\ ret.text[i + 1] = backquote

====
